---- MODULE Spec2Model ----
(***************************************************************************)
(* RnnoiseWorkletProcessor (public/rnnoise/rnnoise-worklet-processor.js):  *)
(* the message handlers (init / destroy / setParameter), the asynchronous  *)
(* initRnnoise, and the render callback process() with its helpers.        *)
(*                                                                         *)
(* Conventions of the model                                                *)
(*  - A WebAssembly instance is an index into `modules`; 0 is null.  The   *)
(*    handle returned by rnnoise_create and the two regions returned by    *)
(*    malloc are identified by the instance that returned them, so         *)
(*    state = 2 reads "the handle created inside instance 2".              *)
(*  - A normalized sample x is the integer x * One (One = 2^FracBits); a   *)
(*    value of the engine domain is the integer itself.                    *)
(*  - A VAD score and silenceThreshold are doubles, each held exactly as   *)
(*    five digits of base 2^15; the engine and the host name them in       *)
(*    tenths (0.1 is 1).                                                   *)
(*  - A destination slot is [w |-> written by this callback, v |-> value]: *)
(*    a slot the callback did not write keeps the host's prior content.    *)
(***************************************************************************)
EXTENDS Integers, Sequences, FiniteSets, TLC

\* ------------------------------------------------------------ bounds
FracBits == 1
MaxInits == 2
LifeFrames == 2
MaxFrameSize == 3
MaxQuantum == 3
ChunkFrames == 4
VadFrames == 6
StreamFrames == 3
StreamQuantum == 2
MaxChannels == 3
MergeFrames == 1
QuantumFrames == 4
HostCalls == 3
MaxContexts == 2

\* ------------------------------------------------------------ constants
Scale == 32768
VadWindow == 5
InitSilenceThreshold == 1
InitMaxSilenceFrames == 10

One == 2 ^ FracBits

\* ------------------------------------------------------------ binaries
requiredFunctions ==
  {"rnnoise_create", "rnnoise_get_frame_size", "rnnoise_process_frame",
   "malloc", "free", "rnnoise_destroy"}

\* A wasm binary as the 'init' message carries it: whether instantiate
\* rejects, which of the required exports it has, the frame size it reports.
GoodBinary(fs) == [rejects |-> FALSE, exports |-> requiredFunctions, fs |-> fs]
RejectedBinary == [rejects |-> TRUE, exports |-> {}, fs |-> 0]
LackingBinary(f) == [rejects |-> FALSE, exports |-> requiredFunctions \ {f}, fs |-> 0]

\* ------------------------------------------------------------ doubles
\* The numbers of the smoother are doubles: a threshold of v tenths is the double
\* nearest to v / 10, a score is the 32-bit float the engine returned, and sums
\* and quotients are rounded to 53 significant bits, ties to even.  A double
\* below 2^15 that is a whole number of 2^-60 is held exactly, in five digits of
\* base 2^15, the most significant first.  A quotient is formed in nine digits,
\* as a whole number of 2^-120 and what is left over.
Digit == 2 ^ 15

Zero == <<0, 0, 0, 0, 0>>

\* The same number in nine digits, and a nine-digit number that ends in four
\* zero digits in five.
Widen(a) == a \o <<0, 0, 0, 0>>
Narrow(a) == SubSeq(a, 1, 5)

\* d in the last of as many digits as a has.
InLastDigit(a, d) ==
  IF Len(a) = 5 THEN <<0, 0, 0, 0, d>> ELSE <<0, 0, 0, 0, 0, 0, 0, 0, d>>

\* a + b, digit by digit from the last, carrying; b may end in a negative
\* digit, which borrows.
BigAdd(a, b) ==
  LET n == Len(a)
      s0 == a[n] + b[n]
      s1 == a[n - 1] + b[n - 1] + (s0 \div Digit)
      s2 == a[n - 2] + b[n - 2] + (s1 \div Digit)
      s3 == a[n - 3] + b[n - 3] + (s2 \div Digit)
      s4 == a[n - 4] + b[n - 4] + (s3 \div Digit)
      s5 == a[n - 5] + b[n - 5] + (s4 \div Digit)
      s6 == a[n - 6] + b[n - 6] + (s5 \div Digit)
      s7 == a[n - 7] + b[n - 7] + (s6 \div Digit)
      s8 == a[n - 8] + b[n - 8] + (s7 \div Digit)
  IN IF n = 5
     THEN <<s4 % Digit, s3 % Digit, s2 % Digit, s1 % Digit, s0 % Digit>>
     ELSE <<s8 % Digit, s7 % Digit, s6 % Digit, s5 % Digit, s4 % Digit, s3 % Digit,
            s2 % Digit, s1 % Digit, s0 % Digit>>

\* Long division by d <= 2^15, digit by digit from the first: the quotient and
\* what is left over.
DivSmall(a, d) ==
  LET n1 == a[1]
      n2 == (n1 % d) * Digit + a[2]
      n3 == (n2 % d) * Digit + a[3]
      n4 == (n3 % d) * Digit + a[4]
      n5 == (n4 % d) * Digit + a[5]
      n6 == (n5 % d) * Digit + a[6]
      n7 == (n6 % d) * Digit + a[7]
      n8 == (n7 % d) * Digit + a[8]
      n9 == (n8 % d) * Digit + a[9]
  IN IF Len(a) = 5
     THEN [q |-> <<n1 \div d, n2 \div d, n3 \div d, n4 \div d, n5 \div d>>, r |-> n5 % d]
     ELSE [q |-> <<n1 \div d, n2 \div d, n3 \div d, n4 \div d, n5 \div d, n6 \div d,
                   n7 \div d, n8 \div d, n9 \div d>>,
           r |-> n9 % d]

\* a < b, of numbers of as many digits.
BigLess(a, b) ==
  IF a[1] # b[1] THEN a[1] < b[1]
  ELSE IF a[2] # b[2] THEN a[2] < b[2]
  ELSE IF a[3] # b[3] THEN a[3] < b[3]
  ELSE IF a[4] # b[4] THEN a[4] < b[4]
  ELSE IF Len(a) = 5 \/ a[5] # b[5] THEN a[5] < b[5]
  ELSE IF a[6] # b[6] THEN a[6] < b[6]
  ELSE IF a[7] # b[7] THEN a[7] < b[7]
  ELSE IF a[8] # b[8] THEN a[8] < b[8]
  ELSE a[9] < b[9]

\* The number of significant bits of a digit, and of a number.
RECURSIVE Bits(_)
Bits(x) == IF x = 0 THEN 0 ELSE 1 + Bits(x \div 2)
BigBits(a) ==
  LET n == Len(a)
  IN IF a[1] # 0 THEN 15 * (n - 1) + Bits(a[1])
     ELSE IF a[2] # 0 THEN 15 * (n - 2) + Bits(a[2])
     ELSE IF a[3] # 0 THEN 15 * (n - 3) + Bits(a[3])
     ELSE IF a[4] # 0 THEN 15 * (n - 4) + Bits(a[4])
     ELSE IF n = 5 \/ a[5] # 0 THEN 15 * (n - 5) + Bits(a[5])
     ELSE IF a[6] # 0 THEN 45 + Bits(a[6])
     ELSE IF a[7] # 0 THEN 30 + Bits(a[7])
     ELSE IF a[8] # 0 THEN 15 + Bits(a[8])
     ELSE Bits(a[9])

\* a with its digits moved k places towards the last (k < 0: towards the first).
DigitAt(a, j) == IF j >= 1 /\ j <= Len(a) THEN a[j] ELSE 0
ShiftDigits(a, k) ==
  IF Len(a) = 5
  THEN <<DigitAt(a, 1 - k), DigitAt(a, 2 - k), DigitAt(a, 3 - k), DigitAt(a, 4 - k),
         DigitAt(a, 5 - k)>>
  ELSE <<DigitAt(a, 1 - k), DigitAt(a, 2 - k), DigitAt(a, 3 - k), DigitAt(a, 4 - k),
         DigitAt(a, 5 - k), DigitAt(a, 6 - k), DigitAt(a, 7 - k), DigitAt(a, 8 - k),
         DigitAt(a, 9 - k)>>

\* The number of `bits` significant bits nearest to a number x, ties to even:
\* x is a, or lies between a and the next number of as many digits when more is
\* set.  A number of `bits` bits or fewer is its own nearest; more is set only
\* for a quotient, which has more bits than that (see Quotient).
RoundTo(a, more, bits) ==
  LET drop == BigBits(a) - bits
  IN IF drop <= 0 THEN a
     ELSE LET k == (drop - 1) \div 15
              cut == ShiftDigits(a, k)
              lost == more \/ ShiftDigits(cut, -k) # a
              unit == 2 ^ (drop - 15 * k)
              d == DivSmall(cut, unit)
              up == \/ 2 * d.r > unit
                    \/ 2 * d.r = unit /\ (lost \/ d.q[Len(a)] % 2 = 1)
          IN ShiftDigits(BigAdd(cut, InLastDigit(a, (IF up THEN unit ELSE 0) - d.r)), -k)

RoundToDouble(a, more) == RoundTo(a, more, 53)

\* a / d rounded to `bits` bits, in nine digits, for a five-digit a and
\* 1 <= d <= 2^7: a quotient other than 0 is 2^60 / d or more in units of
\* 2^-120, which takes 54 bits or more, so that the bits cut off and what the
\* division left over decide the rounding.
Quotient(a, d, bits) ==
  LET x == DivSmall(Widen(a), d) IN RoundTo(x.q, x.r # 0, bits)

\* The double that the literal v / 10 denotes, 1/10 or more unless it is 0.
FromTenths(v) == Narrow(Quotient(<<v, 0, 0, 0, 0>>, 10, 53))

\* The 32-bit float nearest to v / 10, as the double that JavaScript receives
\* from an export that returns a float.
Float32OfTenths(v) == Narrow(Quotient(<<v, 0, 0, 0, 0>>, 10, 24))

VARIABLES
  isDestroy, rnnoiseModule, frameSize, state, pcmInputBuf, pcmOutputBuf, memory,
  inputBuffer, outputBuffer, vadHistory, silenceThreshold, silenceCounter,
  maxSilenceFrames,
  inflight,     \* initRnnoise calls suspended at `await WebAssembly.instantiate`
  modules,      \* the instances created so far, with the engine's own books
  lastOp,       \* the handler that ran last ("destroyAgain": a destroy right after a destroy)
  lastInit,     \* how the initRnnoise call that settled last ended: "none", "ok", "failed"
  cancelled,    \* a 'destroy' was handled while an initRnnoise call was in flight
  raised,       \* that handler threw (a run of destroys: one of them threw)
  ret,          \* process(): "true" or "false" as it returned ("none" after another handler)
  outputs,      \* process(): the destination arrays when it returned
  lastIn,       \* process(): the inputs it was given
  lastMono,     \* process(): what mergeChannels returned (<<>>: not called)
  engineCalls,  \* process(): rnnoise_process_frame invocations it made
  gateLog,      \* one entry per frame handed to processFrame since construction/destroy:
                \* its length, what processFrame returned, the gate's decision and
                \* the samples the loop body appended to outputBuffer for it
  rxCount,      \* mono samples appended to inputBuffer since construction/destroy
  delivering,   \* process(): outputBuffer as outputToChannels found it (<<>>: not called)
  sent,         \* the samples outputToChannels wrote to the destinations, as read
                \* from the first destination channel, since construction/destroy
  destroyMsgs,  \* 'destroy' messages handled: 0, 1, 2 for two or more
  heldAtDestroy, \* the handle held when the current run of destroys began
  \* RnnoiseWorklet (src/RnnoiseWorklet.ts), the wrapper on the host side
  audioContext,       \* the context of the createRnnoiseWorkletNode call that ran last
  rnnoiseWorkletNode, \* the node held: an index into `nodes`, 0 for undefined
  rnnoiseWasmBuffer,  \* whether the wasm bytes have been fetched
  calls,              \* createRnnoiseWorkletNode calls suspended at an await
  nodes,              \* the AudioWorkletNodes constructed so far, with the context
                      \* of each and what it was sent
  started             \* createRnnoiseWorkletNode calls made so far

procVars == <<isDestroy, rnnoiseModule, frameSize, state, pcmInputBuf, pcmOutputBuf,
              memory, inputBuffer, outputBuffer, vadHistory, silenceThreshold,
              silenceCounter, maxSilenceFrames>>
envVars == <<inflight, modules, lastOp, lastInit, cancelled, raised, ret, outputs, lastIn, lastMono, engineCalls,
             gateLog, rxCount, delivering, sent, destroyMsgs, heldAtDestroy>>
hostVars == <<audioContext, rnnoiseWorkletNode, rnnoiseWasmBuffer, calls, nodes, started>>
vars == <<procVars, envVars, hostVars>>

Init ==
  /\ isDestroy = FALSE
  /\ rnnoiseModule = 0
  /\ frameSize = 0
  /\ state = 0
  /\ pcmInputBuf = 0
  /\ pcmOutputBuf = 0
  /\ memory = 0
  /\ inputBuffer = <<>>
  /\ outputBuffer = <<>>
  /\ vadHistory = <<>>
  /\ silenceThreshold = FromTenths(InitSilenceThreshold)
  /\ silenceCounter = 0
  /\ maxSilenceFrames = InitMaxSilenceFrames
  /\ inflight = <<>>
  /\ modules = <<>>
  /\ lastOp = "new"
  /\ lastInit = "none"
  /\ cancelled = FALSE
  /\ raised = FALSE
  /\ ret = "none"
  /\ outputs = <<>>
  /\ lastIn = <<>>
  /\ lastMono = <<>>
  /\ engineCalls = 0
  /\ gateLog = <<>>
  /\ rxCount = 0
  /\ delivering = <<>>
  /\ sent = <<>>
  /\ destroyMsgs = 0
  /\ heldAtDestroy = 0
  /\ audioContext = 0
  /\ rnnoiseWorkletNode = 0
  /\ rnnoiseWasmBuffer = FALSE
  /\ calls = <<>>
  /\ nodes = <<>>
  /\ started = 0

\* What a handler other than process() leaves of the last callback's record.
NoCallback ==
  /\ ret' = "none"
  /\ outputs' = <<>>
  /\ lastIn' = <<>>
  /\ lastMono' = <<>>
  /\ engineCalls' = 0
  /\ delivering' = <<>>

\* ------------------------------------------------------------ the engine's books
\* An instance as instantiate returns it: nothing created in it yet.
NewModule(bytes) ==
  [exports |-> bytes.exports, created |-> FALSE,
   destroyed |-> 0, inFreed |-> 0, outFreed |-> 0]

\* rnnoise_create + malloc + malloc inside instance k.
EngineCreate(mods, k) == [mods EXCEPT ![k].created = TRUE]

\* instance m is called with pointer ptr: the call releases something only when
\* ptr was handed out by m itself; a pointer of another instance means nothing
\* inside m's memory.
EngineDestroy(mods, m, ptr) ==
  IF ptr = m THEN [mods EXCEPT ![m].destroyed = @ + 1] ELSE mods
EngineFreeIn(mods, m, ptr) ==
  IF ptr = m THEN [mods EXCEPT ![m].inFreed = @ + 1] ELSE mods
EngineFreeOut(mods, m, ptr) ==
  IF ptr = m THEN [mods EXCEPT ![m].outFreed = @ + 1] ELSE mods

HasExport(m, f) == m # 0 /\ f \in modules[m].exports

Min2(a, b) == IF a < b THEN a ELSE b

RemoveAt(s, i) == SubSeq(s, 1, i - 1) \o SubSeq(s, i + 1, Len(s))

\* ------------------------------------------------------------ port.onmessage
\* case 'init': initRnnoise runs up to `await WebAssembly.instantiate` and suspends.
OnInit(bytes) ==
  /\ Len(modules) + Len(inflight) < MaxInits
  /\ inflight' = Append(inflight, bytes)
  /\ lastOp' = "init"
  /\ raised' = FALSE
  /\ NoCallback
  /\ UNCHANGED <<procVars, modules, lastInit, cancelled, gateLog, rxCount, sent, destroyMsgs,
                 heldAtDestroy, hostVars>>

\* The missing exports are looked for after the instance has been stored.
MissingExport(bytes) == requiredFunctions \ bytes.exports # {}

\* initRnnoise resumes when the instantiation of call i settles.
initRnnoise(i) ==
  LET bytes == inflight[i]
      k == Len(modules) + 1
      ok == ~bytes.rejects /\ ~MissingExport(bytes)
  IN /\ i \in 1..Len(inflight)
     /\ inflight' = RemoveAt(inflight, i)
     /\ rnnoiseModule' = IF bytes.rejects THEN rnnoiseModule ELSE k
     /\ memory' = IF bytes.rejects THEN memory ELSE k
     /\ modules' = IF bytes.rejects THEN modules
                   ELSE IF ok THEN EngineCreate(Append(modules, NewModule(bytes)), k)
                   ELSE Append(modules, NewModule(bytes))
     /\ state' = IF ok THEN k ELSE state
     /\ frameSize' = IF ok THEN bytes.fs ELSE frameSize
     /\ pcmInputBuf' = IF ok THEN k ELSE pcmInputBuf
     /\ pcmOutputBuf' = IF ok THEN k ELSE pcmOutputBuf
     /\ lastOp' = "settle"
     /\ lastInit' = IF ok THEN "ok" ELSE "failed"
     /\ raised' = FALSE
     /\ NoCallback
     /\ UNCHANGED <<isDestroy, inputBuffer, outputBuffer, vadHistory, silenceThreshold,
                    silenceCounter, maxSilenceFrames, cancelled, gateLog, rxCount, sent,
                    destroyMsgs, heldAtDestroy, hostVars>>

\* The pointer the adapter holds after a release call that returned.
Released(ptr) == 0

\* case 'destroy'.  trapAt names the release call that throws (0: none).  Only a
\* call that passes another instance's pointer can: what the callee does with
\* an address it never handed out is undefined inside its memory.
destroy(trapAt) ==
  LET m == rnnoiseModule
      c1 == m # 0 /\ state # 0 /\ HasExport(m, "rnnoise_destroy")
      t1 == c1 /\ trapAt = 1
      c2 == m # 0 /\ ~t1 /\ pcmInputBuf # 0 /\ HasExport(m, "free")
      t2 == c2 /\ trapAt = 2
      c3 == m # 0 /\ ~t1 /\ ~t2 /\ pcmOutputBuf # 0 /\ HasExport(m, "free")
      t3 == c3 /\ trapAt = 3
      threw == t1 \/ t2 \/ t3
      mods1 == IF c1 /\ ~t1 THEN EngineDestroy(modules, m, state) ELSE modules
      mods2 == IF c2 /\ ~t2 THEN EngineFreeIn(mods1, m, pcmInputBuf) ELSE mods1
      mods3 == IF c3 /\ ~t3 THEN EngineFreeOut(mods2, m, pcmOutputBuf) ELSE mods2
      again == lastOp \in {"destroy", "destroyAgain"}
  IN /\ trapAt \in 0..3
     /\ trapAt = 1 => c1 /\ state # m
     /\ trapAt = 2 => c2 /\ pcmInputBuf # m
     /\ trapAt = 3 => c3 /\ pcmOutputBuf # m
     /\ isDestroy' = TRUE
     /\ modules' = mods3
     /\ state' = IF c1 /\ ~t1 THEN Released(state) ELSE state
     /\ pcmInputBuf' = IF c2 /\ ~t2 THEN Released(pcmInputBuf) ELSE pcmInputBuf
     /\ pcmOutputBuf' = IF c3 /\ ~t3 THEN Released(pcmOutputBuf) ELSE pcmOutputBuf
     /\ rnnoiseModule' = IF threw THEN m ELSE 0
     /\ memory' = IF threw \/ m = 0 THEN memory ELSE 0
     /\ inputBuffer' = IF threw THEN inputBuffer ELSE <<>>
     /\ outputBuffer' = IF threw THEN outputBuffer ELSE <<>>
     /\ vadHistory' = IF threw THEN vadHistory ELSE <<>>
     /\ silenceCounter' = IF threw THEN silenceCounter ELSE 0
     /\ gateLog' = IF threw THEN gateLog ELSE <<>>
     /\ rxCount' = IF threw THEN rxCount ELSE 0
     /\ sent' = IF threw THEN sent ELSE <<>>
     /\ destroyMsgs' = Min2(destroyMsgs + 1, 2)
     /\ heldAtDestroy' = IF again THEN heldAtDestroy ELSE state
     /\ lastOp' = IF again THEN "destroyAgain" ELSE "destroy"
     /\ cancelled' = (cancelled \/ inflight # <<>>)
     /\ raised' = (threw \/ (again /\ raised))
     /\ NoCallback
     /\ UNCHANGED <<frameSize, silenceThreshold, maxSilenceFrames, inflight, lastInit,
                    hostVars>>

\* case 'setParameter'.
setParameter(parameter, value) ==
  /\ silenceThreshold' = IF parameter = "silenceThreshold" THEN FromTenths(value)
                                                           ELSE silenceThreshold
  /\ maxSilenceFrames' = IF parameter = "silenceThreshold" THEN maxSilenceFrames
                         ELSE IF parameter = "maxSilenceFrames" THEN value
                         ELSE maxSilenceFrames
  /\ lastOp' = "setParameter"
  /\ raised' = FALSE
  /\ NoCallback
  /\ UNCHANGED <<isDestroy, rnnoiseModule, frameSize, state, pcmInputBuf, pcmOutputBuf,
                 memory, inputBuffer, outputBuffer, vadHistory, silenceCounter,
                 inflight, modules, lastInit, cancelled, gateLog, rxCount, sent, destroyMsgs,
                 heldAtDestroy, hostVars>>

\* ------------------------------------------------------------ samples
\* NaN stands outside every value a sample or an engine value takes.
NaN == Scale * Scale
isFinite(sample) == sample # NaN

\* scaledFrame[i] = frame[i] * 32768
toEngineDomain(x) == IF isFinite(x) THEN (x * Scale) \div One ELSE NaN

\* sample = outputView[i] / 32768, then limited to [-1, 1]; NaN passes both tests.
fromEngineDomain(y) ==
  IF ~isFinite(y) THEN NaN
  ELSE LET sample == (y * One) \div Scale
       IN IF sample > One THEN One ELSE IF sample < -One THEN -One ELSE sample

\* ------------------------------------------------------------ engine
\* What one rnnoise_process_frame call does, as the engine decides it: it throws,
\* or it returns the float nearest to vad / 10 as its VAD score, which the code
\* receives as a double, and leaves gain * input in the output region.
EngineOutcome(throws, vad, gain) ==
  [throws |-> throws, vad |-> Float32OfTenths(vad), gain |-> gain, fits |-> TRUE]

\* The same call when the regions the processor holds were handed out by
\* another instance than the one whose memory it holds: such an offset may lie
\* outside that memory, and new Float32Array(memory.buffer, offset, frameSize)
\* then throws a RangeError.
OutOfRange(oc) == [oc EXCEPT !.fits = FALSE]
EngineRun(scaled, oc) ==
  [i \in 1..Len(scaled) |-> IF isFinite(scaled[i]) THEN oc.gain * scaled[i] ELSE NaN]

NotInitialized ==
  rnnoiseModule = 0 \/ state = 0 \/ memory = 0 \/ pcmInputBuf = 0 \/ pcmOutputBuf = 0

\* new Float32Array(frameSize).fill(0) with the first min(len, frameSize) samples set.
PadFrame(frame) ==
  [i \in 1..frameSize |-> IF i <= Len(frame) THEN frame[i] ELSE 0]

\* Mutant: the catch block returns the scaled copy instead of the frame it was given.
processFrame_CatchReturnsScaled(frame, oc) ==
  IF NotInitialized
  THEN [frame |-> frame, vad |-> Zero, called |-> FALSE, threw |-> FALSE]
  ELSE LET fr == IF Len(frame) # frameSize THEN PadFrame(frame) ELSE frame
           callable == HasExport(rnnoiseModule, "rnnoise_process_frame")
           scaledFrame == [i \in 1..frameSize |-> toEngineDomain(fr[i])]
           outputView == EngineRun(scaledFrame, oc)
           inputView == pcmInputBuf = memory \/ oc.fits
           outputRead == pcmOutputBuf = memory \/ oc.fits
       IN IF ~inputView
          THEN [frame |-> scaledFrame, vad |-> Zero, called |-> FALSE, threw |-> TRUE]
          ELSE IF ~callable \/ oc.throws
          THEN [frame |-> scaledFrame, vad |-> Zero, called |-> callable, threw |-> TRUE]
          ELSE IF ~outputRead
          THEN [frame |-> scaledFrame, vad |-> Zero, called |-> TRUE, threw |-> TRUE]
          ELSE [frame |-> [i \in 1..frameSize |-> fromEngineDomain(outputView[i])],
                vad |-> oc.vad, called |-> TRUE, threw |-> FALSE]

\* processFrame(frame), given what the engine does when it is called.  `called`
\* tells whether rnnoise_process_frame was invoked: the view of the input
\* region is made before the call, inside the try, and a module without that
\* export throws a TypeError at the call expression.  The view of the output
\* region is made after the call.
processFrame(frame, oc) ==
  IF NotInitialized
  THEN [frame |-> frame, vad |-> Zero, called |-> FALSE, threw |-> FALSE]
  ELSE LET fr == IF Len(frame) # frameSize THEN PadFrame(frame) ELSE frame
           callable == HasExport(rnnoiseModule, "rnnoise_process_frame")
           scaledFrame == [i \in 1..frameSize |-> toEngineDomain(fr[i])]
           outputView == EngineRun(scaledFrame, oc)
           inputView == pcmInputBuf = memory \/ oc.fits
           outputRead == pcmOutputBuf = memory \/ oc.fits
       IN IF ~inputView
          THEN [frame |-> fr, vad |-> Zero, called |-> FALSE, threw |-> TRUE]
          ELSE IF ~callable \/ oc.throws
          THEN [frame |-> fr, vad |-> Zero, called |-> callable, threw |-> TRUE]
          ELSE IF ~outputRead
          THEN [frame |-> fr, vad |-> Zero, called |-> TRUE, threw |-> TRUE]
          ELSE [frame |-> [i \in 1..frameSize |-> fromEngineDomain(outputView[i])],
                vad |-> oc.vad, called |-> TRUE, threw |-> FALSE]

\* vadHistory.reduce((sum, val) => sum + val, 0) over the first n scores.
RECURSIVE ReduceSum(_, _)
ReduceSum(hist, n) ==
  IF n = 0 THEN Zero
  ELSE RoundToDouble(BigAdd(ReduceSum(hist, n - 1), hist[n]), FALSE)

\* avgVad = sum / length, with length >= 1, in nine digits.
avgVad(hist) == Quotient(ReduceSum(hist, Len(hist)), Len(hist), 53)

\* Mutant: an average equal to the threshold counts as silence.
AvgBelow_OrEqual(hist, threshold) == ~BigLess(Widen(threshold), avgVad(hist))

\* avgVad < silenceThreshold, the window holding doubles and the threshold being
\* one.
AvgBelow(hist, threshold) == BigLess(avgVad(hist), Widen(threshold))

\* Mutant: the oldest score leaves when the window is full, not when it overflows.
updateVadHistory_EvictsWhenFull(hist, counter, vad) ==
  LET pushed == Append(hist, vad)
      h == IF Len(pushed) >= VadWindow THEN Tail(pushed) ELSE pushed
  IN [hist |-> h,
      counter |-> IF AvgBelow(h, silenceThreshold) THEN counter + 1 ELSE 0]

\* updateVadHistory(vad): the window and the counter afterwards.
updateVadHistory(hist, counter, vad) ==
  LET pushed == Append(hist, vad)
      h == IF Len(pushed) > VadWindow THEN Tail(pushed) ELSE pushed
  IN [hist |-> h,
      counter |-> IF AvgBelow(h, silenceThreshold) THEN counter + 1 ELSE 0]

\* Mutant: the frame that reaches the limit is dropped already.
shouldSkipFrame_AtLimit(counter) == counter >= maxSilenceFrames

shouldSkipFrame(counter) == counter > maxSilenceFrames

\* The samples of column i that count: the channel reaches i and holds a finite value.
ValidAt(channels, i) ==
  {ch \in 1..Len(channels) : i <= Len(channels[ch]) /\ isFinite(channels[ch][i])}

RECURSIVE SumOver(_, _, _)
SumOver(channels, chs, i) ==
  IF chs = {} THEN 0
  ELSE LET ch == CHOOSE c \in chs : TRUE
       IN channels[ch][i] + SumOver(channels, chs \ {ch}, i)

\* Mutant: a column without a finite value yields NaN, as 0 / 0 does.
mergeChannels_DividesByZero(channels) ==
  IF Len(channels) = 0 THEN <<>>
  ELSE IF Len(channels) = 1 THEN channels[1]
  ELSE [i \in 1..Len(channels[1]) |->
          LET valid == ValidAt(channels, i)
          IN IF Cardinality(valid) > 0
             THEN SumOver(channels, valid, i) \div Cardinality(valid)
             ELSE NaN]

\* The inputs are drawn so that sum / validCount is a value of the sample grid.
mergeChannels(channels) ==
  IF Len(channels) = 0 THEN <<>>
  ELSE IF Len(channels) = 1 THEN channels[1]
  ELSE [i \in 1..Len(channels[1]) |->
          LET valid == ValidAt(channels, i)
          IN IF Cardinality(valid) > 0
             THEN SumOver(channels, valid, i) \div Cardinality(valid)
             ELSE 0]

\* ------------------------------------------------------------ destinations
Slot(v) == [w |-> TRUE, v |-> v]
Untouched == [w |-> FALSE, v |-> 0]

\* The destination arrays as the host hands them over, none of their slots written.
Blank(shape) ==
  [o \in 1..Len(shape) |-> [c \in 1..Len(shape[o]) |-> [i \in 1..shape[o][c] |-> Untouched]]]

ShapeOf(outs) ==
  [o \in 1..Len(outs) |-> [c \in 1..Len(outs[o]) |-> Len(outs[o][c])]]

\* Mutant: only the first output is filled.
outputSilence_FirstOutputOnly(outs) ==
  [o \in 1..Len(outs) |-> [c \in 1..Len(outs[o]) |->
     [i \in 1..Len(outs[o][c]) |-> IF o = 1 THEN Slot(0) ELSE outs[o][c][i]]]]

\* channel.fill(0) on every channel of every output.
outputSilence(outs) ==
  [o \in 1..Len(outs) |-> [c \in 1..Len(outs[o]) |->
     [i \in 1..Len(outs[o][c]) |-> Slot(0)]]]

\* Mutant: the slots beyond the source are zeroed.
CopyInto_ZeroExtends(channel, source) ==
  [i \in 1..Len(channel) |-> IF i <= Len(source) THEN Slot(source[i]) ELSE Slot(0)]

\* channel.set(source) on equal lengths, else the first min(lengths) samples.
CopyInto(channel, source) ==
  [i \in 1..Len(channel) |-> IF i <= Len(source) THEN Slot(source[i]) ELSE channel[i]]

\* Mutant: the source reaches only the first channel of each destination.
outputPassthrough_FirstChannelOnly(inputs, outs) ==
  IF Len(inputs) = 0 \/ Len(inputs[1]) = 0 THEN outputSilence(outs)
  ELSE [o \in 1..Len(outs) |-> [c \in 1..Len(outs[o]) |->
          IF c = 1 THEN CopyInto(outs[o][c], inputs[1][1]) ELSE outs[o][c]]]

outputPassthrough(inputs, outs) ==
  IF Len(inputs) = 0 \/ Len(inputs[1]) = 0 THEN outputSilence(outs)
  ELSE [o \in 1..Len(outs) |-> [c \in 1..Len(outs[o]) |->
          CopyInto(outs[o][c], inputs[1][1])]]

ChannelLengths(outs) ==
  UNION {{Len(outs[o][c]) : c \in 1..Len(outs[o])} : o \in 1..Len(outs)}

SetMin(S) == CHOOSE x \in S : \A y \in S : x <= y

\* Mutant: what was copied stays in the output buffer.
outputToChannels_KeepsConsumed(buffer, outs) ==
  LET samplesToCopy == SetMin({Len(buffer)} \cup ChannelLengths(outs))
  IN IF Len(buffer) = 0 \/ samplesToCopy = 0
     THEN [outputs |-> outs, buffer |-> buffer]
     ELSE [outputs |->
             [o \in 1..Len(outs) |-> [c \in 1..Len(outs[o]) |->
                [i \in 1..Len(outs[o][c]) |->
                   IF i <= samplesToCopy THEN Slot(buffer[i]) ELSE outs[o][c][i]]]],
           buffer |-> buffer]

\* Mutant: the slots beyond what was queued are zeroed.
outputToChannels_ZeroFillsRest(buffer, outs) ==
  LET samplesToCopy == SetMin({Len(buffer)} \cup ChannelLengths(outs))
  IN IF Len(buffer) = 0 \/ samplesToCopy = 0
     THEN [outputs |-> outs, buffer |-> buffer]
     ELSE [outputs |->
             [o \in 1..Len(outs) |-> [c \in 1..Len(outs[o]) |->
                [i \in 1..Len(outs[o][c]) |->
                   IF i <= samplesToCopy THEN Slot(buffer[i]) ELSE Slot(0)]]],
           buffer |-> IF Len(buffer) > samplesToCopy
                      THEN SubSeq(buffer, samplesToCopy + 1, Len(buffer))
                      ELSE <<>>]

\* outputToChannels(outputs): the destinations and the output buffer afterwards.
outputToChannels(buffer, outs) ==
  LET samplesToCopy == SetMin({Len(buffer)} \cup ChannelLengths(outs))
  IN IF Len(buffer) = 0 \/ samplesToCopy = 0
     THEN [outputs |-> outs, buffer |-> buffer]
     ELSE [outputs |->
             [o \in 1..Len(outs) |-> [c \in 1..Len(outs[o]) |->
                [i \in 1..Len(outs[o][c]) |->
                   IF i <= samplesToCopy THEN Slot(buffer[i]) ELSE outs[o][c][i]]]],
           buffer |-> IF Len(buffer) > samplesToCopy
                      THEN SubSeq(buffer, samplesToCopy + 1, Len(buffer))
                      ELSE <<>>]

\* The leading slots of a destination channel that the callback wrote, and what
\* the first destination channel received.
RECURSIVE WrittenPrefix(_, _)
WrittenPrefix(channel, i) ==
  IF i > Len(channel) \/ ~channel[i].w THEN <<>>
  ELSE <<channel[i].v>> \o WrittenPrefix(channel, i + 1)
Written(outs) ==
  IF Len(outs) = 0 \/ Len(outs[1]) = 0 THEN <<>> ELSE WrittenPrefix(outs[1][1], 1)

\* ------------------------------------------------------------ process
\* inputBuffer.slice(0, frameSize) and inputBuffer.slice(frameSize)
TakeFrame(buffer) == SubSeq(buffer, 1, frameSize)
DropFrame(buffer) == SubSeq(buffer, frameSize + 1, Len(buffer))

\* Mutant: a buffer holding exactly one frame is left alone.
FrameReady_Strict(buffer) == Len(buffer) > frameSize

\* The loop condition of process().
FrameReady(buffer) == Len(buffer) >= frameSize

\* Mutant: the processed frame goes to the head of outputBuffer.
AppendKept_AtHead(buffer, frame, skip) == IF skip THEN buffer ELSE frame \o buffer

\* Mutant: a dropped frame is replaced with silence.
AppendKept_SilenceForDropped(buffer, frame, skip) ==
  buffer \o (IF skip THEN [i \in 1..Len(frame) |-> 0] ELSE frame)

\* if (shouldSkipFrame()) continue; else the processed frame joins outputBuffer.
AppendKept(buffer, frame, skip) == IF skip THEN buffer ELSE buffer \o frame

\* while (inputBuffer.length >= frameSize) { ... }: eng holds what the engine does
\* at each call, in order.  st carries the fields the loop body assigns.
RECURSIVE DrainFrames(_, _)
DrainFrames(st, eng) ==
  IF ~FrameReady(st.inb) \/ eng = <<>> THEN st
  ELSE LET frame == TakeFrame(st.inb)
           r == processFrame(frame, Head(eng))
           v == updateVadHistory(st.hist, st.counter, r.vad)
           skip == shouldSkipFrame(v.counter)
           outb == AppendKept(st.outb, r.frame, skip)
           entry == [len |-> Len(frame), fs |-> frameSize, vad |-> r.vad,
                     threw |-> r.threw, same |-> r.frame = frame,
                     thr |-> silenceThreshold, msf |-> maxSilenceFrames,
                     counter |-> v.counter, skip |-> skip,
                     out |-> r.frame, queued |-> Len(outb) - Len(st.outb)]
       IN DrainFrames(
            [inb |-> DropFrame(st.inb),
             outb |-> outb,
             hist |-> v.hist,
             counter |-> v.counter,
             log |-> Append(st.log, entry),
             calls |-> st.calls + (IF r.called THEN 1 ELSE 0)],
            Tail(eng))

\* Mutant: the callback stops only while the engine is gone.
Stopped_WhileReleased == isDestroy /\ NotInitialized

\* if (this.isDestroy) return false
Stopped == isDestroy

\* process(inputs, outputs): shape gives the destinations' lengths, eng what the
\* engine does at each of the calls this callback makes.  st is the state the
\* frame loop ends in, out what outputToChannels makes of it.
process(inputs, shape, eng) ==
  LET outs == Blank(shape)
      noInput == Len(inputs) = 0 \/ Len(inputs[1]) = 0
      pipeline == ~Stopped /\ ~NotInitialized /\ ~noInput
      monoInput == mergeChannels(inputs[1])
      appended == inputBuffer \o monoInput
      start == [inb |-> appended, outb |-> outputBuffer, hist |-> vadHistory,
                counter |-> silenceCounter, log |-> gateLog, calls |-> 0]
  IN /\ Len(eng) = (IF pipeline THEN Len(appended) \div frameSize ELSE 0)
     /\ lastOp' = "process"
     /\ raised' = FALSE
     /\ lastIn' = inputs
     /\ IF Stopped
        THEN /\ ret' = "false"
             /\ outputs' = outs
             /\ engineCalls' = 0
             /\ delivering' = <<>>
             /\ lastMono' = <<>>
             /\ UNCHANGED <<inputBuffer, outputBuffer, vadHistory, silenceCounter,
                            gateLog, rxCount, sent>>
        ELSE IF NotInitialized
        THEN /\ ret' = "true"
             /\ outputs' = outputPassthrough(inputs, outs)
             /\ engineCalls' = 0
             /\ delivering' = <<>>
             /\ lastMono' = <<>>
             /\ UNCHANGED <<inputBuffer, outputBuffer, vadHistory, silenceCounter,
                            gateLog, rxCount, sent>>
        ELSE IF noInput
        THEN /\ ret' = "true"
             /\ outputs' = outputSilence(outs)
             /\ engineCalls' = 0
             /\ delivering' = <<>>
             /\ lastMono' = <<>>
             /\ UNCHANGED <<inputBuffer, outputBuffer, vadHistory, silenceCounter,
                            gateLog, rxCount, sent>>
        ELSE \E st \in {DrainFrames(start, eng)} :
             \E out \in {outputToChannels(st.outb, outs)} :
             /\ ret' = "true"
             /\ inputBuffer' = st.inb
             /\ outputBuffer' = out.buffer
             /\ vadHistory' = st.hist
             /\ silenceCounter' = st.counter
             /\ gateLog' = st.log
             /\ rxCount' = rxCount + Len(monoInput)
             /\ engineCalls' = st.calls
             /\ delivering' = st.outb
             /\ lastMono' = monoInput
             /\ sent' = sent \o Written(out.outputs)
             /\ outputs' = out.outputs
     /\ UNCHANGED <<isDestroy, rnnoiseModule, frameSize, state, pcmInputBuf,
                    pcmOutputBuf, memory, silenceThreshold, maxSilenceFrames,
                    inflight, modules, lastInit, cancelled, destroyMsgs, heldAtDestroy, hostVars>>

\* ------------------------------------------------------------ inputs
\* One input source of one channel, of two channels.
Mono(samples) == << <<samples>> >>
Stereo(left, right) == << <<left, right>> >>

\* Every sequence over S of length lo..hi.
SeqsOf(S, lo, hi) == UNION {[1..n -> S] : n \in lo..hi}

Settle == \E i \in 1..Len(inflight) : initRnnoise(i)

Destroy == \E trapAt \in 0..3 : destroy(trapAt)

\* ------------------------------------------------------------ Spec
\* The lifecycle: binaries that instantiate, that are rejected, that lack an
\* export; inits in flight and settling in any order; repeated destroys.
LifeBinaries == {GoodBinary(2), RejectedBinary, LackingBinary("rnnoise_destroy")}

\* The engine throws, or returns silence with a VAD score of 0.5; the regions
\* of another instance lie inside the memory held, or outside it.
LifeOutcomes ==
  {EngineOutcome(TRUE, 0, 0), EngineOutcome(FALSE, 5, 0),
   OutOfRange(EngineOutcome(FALSE, 5, 0))}

LifeInputs == {<<>>, Mono(<<1, One>>)}

LifeShape == << <<2, 2>>, <<2>> >>

LifeInit == \E bytes \in LifeBinaries : OnInit(bytes)

LifeSetParameter == setParameter("maxSilenceFrames", 0)

LifeProcess ==
  \E inputs \in LifeInputs, eng \in SeqsOf(LifeOutcomes, 0, 1) :
    /\ process(inputs, LifeShape, eng)
    /\ Len(gateLog') <= LifeFrames

Next == LifeInit \/ Settle \/ Destroy \/ LifeSetParameter \/ LifeProcess

Spec == Init /\ [][Next]_vars

\* ------------------------------------------------------------ SpecFrames
\* Frame assembly: one engine build per behaviour, of any frame size up to
\* MaxFrameSize, fed mono quanta of every length up to MaxQuantum.
FrameSizes == 1..MaxFrameSize

FramesOutcomes == {EngineOutcome(FALSE, 5, 1)}

FramesInit ==
  \E fs \in FrameSizes :
    /\ frameSize \in {0, fs}
    /\ \A i \in 1..Len(inflight) : inflight[i].fs = fs
    /\ OnInit(GoodBinary(fs))

FramesProcess ==
  \E n \in 0..MaxQuantum, eng \in SeqsOf(FramesOutcomes, 0, MaxQuantum) :
    /\ process(Mono([i \in 1..n |-> One]), << <<2>> >>, eng)
    /\ Len(gateLog') <= ChunkFrames

NextFrames == FramesInit \/ Settle \/ Destroy \/ FramesProcess

SpecFrames == Init /\ [][NextFrames]_vars

\* ------------------------------------------------------------ SpecVad
\* Gating: an engine of frame size 1, so that every sample fed is one frame,
\* with VAD scores of 0 and 0.5: below and above the initial threshold of 0.1,
\* below and at a threshold of 0.5, which a float holds exactly.
VadOutcomes == {EngineOutcome(FALSE, 0, 1), EngineOutcome(FALSE, 5, 1)}

\* One activation per behaviour.
VadInit == modules = <<>> /\ inflight = <<>> /\ OnInit(GoodBinary(1))

\* The host lowers the limit of the gate, or raises the threshold to 0.5, the
\* higher of the two scores.
VadSetParameter ==
  \/ setParameter("maxSilenceFrames", 2)
  \/ setParameter("silenceThreshold", 5)

VadProcess ==
  \E n \in 1..2, eng \in SeqsOf(VadOutcomes, 0, 2) :
    /\ process(Mono([i \in 1..n |-> One]), << <<2>> >>, eng)
    /\ Len(gateLog') <= VadFrames

NextVad == VadInit \/ Settle \/ Destroy \/ VadSetParameter \/ VadProcess

SpecVad == Init /\ [][NextVad]_vars

\* ------------------------------------------------------------ SpecStream
\* Delivery: one engine build per behaviour that returns its input (gain 1) and
\* a VAD score below or above the threshold, fed a signal whose neighbouring
\* samples differ, into destinations shorter and longer than what is queued.
StreamOutcomes == {EngineOutcome(FALSE, 0, 1), EngineOutcome(FALSE, 5, 1)}

\* Sample k of the input signal: a sawtooth over the sample grid of [-1, 1].
Saw(k) == (k % (2 * One + 1)) - One

\* The next n samples of the signal, or no input: inputs[0] absent, or present
\* without a channel.
StreamInputs(n) ==
  IF n = 0 THEN {<<>>, << <<>> >>} ELSE {Mono([i \in 1..n |-> Saw(rxCount + i)])}

\* One output of one short channel; two outputs, channels of unequal lengths.
StreamShapes == {<< <<1>> >>, << <<2, 3>>, <<2>> >>}

\* One activation per behaviour, of an engine whose frame is as long as a
\* quantum at most: a quantum completes a frame, several, or part of one.
StreamInit ==
  /\ modules = <<>> /\ inflight = <<>>
  /\ \E fs \in 1..StreamQuantum : OnInit(GoodBinary(fs))

\* With a limit of 0 the gate drops every frame that counts as silence.
StreamSetParameter == setParameter("maxSilenceFrames", 0)

StreamProcess ==
  \E n \in 0..StreamQuantum, shape \in StreamShapes :
    \E inputs \in StreamInputs(n), eng \in SeqsOf(StreamOutcomes, 0, StreamQuantum) :
      /\ process(inputs, shape, eng)
      /\ Len(gateLog') <= StreamFrames

NextStream == StreamInit \/ Settle \/ Destroy \/ StreamSetParameter \/ StreamProcess

SpecStream == Init /\ [][NextStream]_vars

\* ------------------------------------------------------------ SpecMerge
\* Merging: an engine of frame size 1 fed one input source of up to MaxChannels
\* channels.  The first channel holds one sample, the others one or none; a
\* sample is NaN, 0 or 1.
MergeOutcomes == {EngineOutcome(FALSE, 5, 1)}

MergeChannel == {<<>>, <<NaN>>, <<0>>, <<One>>}

\* sum / validCount is a value of the sample grid at every index.
ExactMean(channels) ==
  \A i \in 1..Len(channels[1]) :
    LET valid == ValidAt(channels, i)
    IN valid = {} \/ SumOver(channels, valid, i) % Cardinality(valid) = 0

MergeInputs ==
  {<<channels>> : channels \in
     {chs \in SeqsOf(MergeChannel, 1, MaxChannels) : Len(chs[1]) = 1 /\ ExactMean(chs)}}

MergeInit == modules = <<>> /\ inflight = <<>> /\ OnInit(GoodBinary(1))

MergeProcess ==
  \E inputs \in MergeInputs, eng \in SeqsOf(MergeOutcomes, 0, 1) :
    /\ process(inputs, << <<1>> >>, eng)
    /\ Len(gateLog') <= MergeFrames

NextMerge == MergeInit \/ Settle \/ Destroy \/ MergeProcess

SpecMerge == Init /\ [][NextMerge]_vars

\* ------------------------------------------------------------ SpecPass
\* Passthrough: no activation succeeds (the instantiation is rejected, or the
\* binary lacks malloc), and the callback gets a source of up to MaxQuantum
\* samples for destinations shorter than, as long as and longer than it.
PassBinaries == {RejectedBinary, LackingBinary("malloc")}

PassInputs ==
  {<<>>} \cup {Mono([i \in 1..n |-> Saw(i)]) : n \in 1..MaxQuantum}
         \cup {Stereo([i \in 1..n |-> Saw(i)], [i \in 1..n |-> 0]) : n \in 1..MaxQuantum}

\* One output of two channels that share MaxQuantum + 1 slots between them.
PassShapes == {<< <<a, MaxQuantum + 1 - a>> >> : a \in 0..MaxQuantum + 1}

PassInit == \E bytes \in PassBinaries : OnInit(bytes)

PassProcess ==
  \E inputs \in PassInputs, shape \in PassShapes : process(inputs, shape, <<>>)

NextPass == PassInit \/ Settle \/ Destroy \/ PassProcess

SpecPass == Init /\ [][NextPass]_vars

\* ------------------------------------------------------------ SpecQuantum
\* The render quantum: every callback gets one channel of q samples and two
\* destination channels of q slots, q up to MaxQuantum, for an engine of any
\* frame size up to MaxFrameSize and a gate that keeps or drops.
QuantumInit ==
  /\ modules = <<>> /\ inflight = <<>>
  /\ \E fs \in FrameSizes : OnInit(GoodBinary(fs))

QuantumProcess ==
  \E q \in 0..MaxQuantum, eng \in SeqsOf(StreamOutcomes, 0, MaxQuantum) :
    /\ process(Mono([i \in 1..q |-> Saw(rxCount + i)]), << <<q, q>> >>, eng)
    /\ Len(gateLog') <= QuantumFrames

NextQuantum == QuantumInit \/ Settle \/ Destroy \/ StreamSetParameter \/ QuantumProcess

SpecQuantum == Init /\ [][NextQuantum]_vars

\* ------------------------------------------------------------ RnnoiseWorklet
\* An AudioWorkletNode as the constructor returns it.
NewNode(ctx) == [ctx |-> ctx, inits |-> 0, destroys |-> 0, disconnected |-> FALSE]

\* this.rnnoiseWorkletNode?.port.postMessage({ type: 'init', ... })
PostInit(ns, node) == IF node = 0 THEN ns ELSE [ns EXCEPT ![node].inits = @ + 1]

\* The body of destroy(): what it does to the node held, if any.
NodesAfterDestroy(ns, node) ==
  IF node = 0 THEN ns
  ELSE [ns EXCEPT ![node].disconnected = TRUE, ![node].destroys = @ + 1]

\* destroy = () => { ... }
RnnoiseWorklet_destroy ==
  /\ nodes' = NodesAfterDestroy(nodes, rnnoiseWorkletNode)
  /\ rnnoiseWorkletNode' = 0
  /\ UNCHANGED <<audioContext, rnnoiseWasmBuffer, calls, started, procVars, envVars>>

\* createRnnoiseWorkletNode(audioContext) up to `await ...addModule(...)`.
createRnnoiseWorkletNode(ctx) ==
  /\ started < HostCalls
  /\ started' = started + 1
  /\ nodes' = NodesAfterDestroy(nodes, rnnoiseWorkletNode)
  /\ rnnoiseWorkletNode' = 0
  /\ audioContext' = ctx
  /\ calls' = Append(calls, "addModule")
  /\ UNCHANGED <<rnnoiseWasmBuffer, procVars, envVars>>

\* Call i resumes after addModule: it constructs the node in the context the
\* wrapper holds now and, with the bytes at hand, posts 'init' and returns;
\* without them it suspends at fetch.  A rejected addModule ends the call.
AfterAddModule(i, resolved) ==
  LET node == Len(nodes) + 1
      made == Append(nodes, NewNode(audioContext))
  IN /\ i \in 1..Len(calls) /\ calls[i] = "addModule"
     /\ IF ~resolved
        THEN /\ calls' = RemoveAt(calls, i)
             /\ UNCHANGED <<nodes, rnnoiseWorkletNode>>
        ELSE /\ rnnoiseWorkletNode' = node
             /\ IF rnnoiseWasmBuffer
                THEN /\ nodes' = PostInit(made, node)
                     /\ calls' = RemoveAt(calls, i)
                ELSE /\ nodes' = made
                     /\ calls' = [calls EXCEPT ![i] = "fetch"]
     /\ UNCHANGED <<audioContext, rnnoiseWasmBuffer, started, procVars, envVars>>

\* Call i resumes after fetch and suspends at response.arrayBuffer().
AfterFetch(i, resolved) ==
  /\ i \in 1..Len(calls) /\ calls[i] = "fetch"
  /\ calls' = IF resolved THEN [calls EXCEPT ![i] = "arrayBuffer"] ELSE RemoveAt(calls, i)
  /\ UNCHANGED <<audioContext, rnnoiseWorkletNode, rnnoiseWasmBuffer, nodes, started,
                 procVars, envVars>>

\* Call i resumes after arrayBuffer(): it stores the bytes, posts 'init' to the
\* node the wrapper holds now, if any, and returns that node.
AfterArrayBuffer(i, resolved) ==
  /\ i \in 1..Len(calls) /\ calls[i] = "arrayBuffer"
  /\ calls' = RemoveAt(calls, i)
  /\ rnnoiseWasmBuffer' = (rnnoiseWasmBuffer \/ resolved)
  /\ nodes' = IF resolved THEN PostInit(nodes, rnnoiseWorkletNode) ELSE nodes
  /\ UNCHANGED <<audioContext, rnnoiseWorkletNode, started, procVars, envVars>>

\* ------------------------------------------------------------ SpecHost
\* The wrapper: up to HostCalls calls of createRnnoiseWorkletNode, for any of
\* MaxContexts contexts, interleaved at their awaits with each other and with
\* destroy; each await resolves or rejects.
HostCreate == \E ctx \in 1..MaxContexts : createRnnoiseWorkletNode(ctx)

HostAfterAddModule ==
  \E i \in 1..Len(calls), resolved \in BOOLEAN : AfterAddModule(i, resolved)

HostAfterFetch ==
  \E i \in 1..Len(calls), resolved \in BOOLEAN : AfterFetch(i, resolved)

HostAfterArrayBuffer ==
  \E i \in 1..Len(calls), resolved \in BOOLEAN : AfterArrayBuffer(i, resolved)

NextHost ==
  \/ HostCreate
  \/ HostAfterAddModule
  \/ HostAfterFetch
  \/ HostAfterArrayBuffer
  \/ RnnoiseWorklet_destroy

SpecHost == Init /\ [][NextHost]_vars

\* ------------------------------------------------------------ resources
Instances == 1..Len(modules)

\* The handle and the two regions created inside instance k, and what became of them.
Created(k) == modules[k].created
Live(k) ==
  Created(k) /\ (modules[k].destroyed = 0 \/ modules[k].inFreed = 0 \/ modules[k].outFreed = 0)
ReleasedOnce(k) ==
  modules[k].destroyed = 1 /\ modules[k].inFreed = 1 /\ modules[k].outFreed = 1
ReleasedAtMostOnce(k) ==
  modules[k].destroyed <= 1 /\ modules[k].inFreed <= 1 /\ modules[k].outFreed <= 1

\* ------------------------------------------------------------ claims
\* C1: a destroy handled while initRnnoise awaits the instantiation still leads
\* to the release of what that initialization creates: once no call is in
\* flight any more and the render callback has returned false (the host stops
\* calling it, nothing runs after that), no created handle or region is live.
C1_CancelledInitReleased ==
  (cancelled /\ inflight = <<>> /\ ret = "false") => \A k \in Instances : ~Live(k)

\* C3: with no init in flight at any destroy and every instantiated module
\* initialized successfully, right after a destroy every handle and region ever
\* created has been released exactly once, the first of two successful inits
\* included.
C3_AllReleasedOnceAfterDestroy ==
  (lastOp \in {"destroy", "destroyAgain"} /\ ~cancelled
     /\ \A k \in Instances : Created(k))
    => \A k \in Instances : ReleasedOnce(k)

\* C4: after two or more destroys in a row, from whatever state the first one
\* found, none of them raised, the processor is destroyed, no handle or region
\* was released twice, and the handle the adapter held (with its regions) was
\* released exactly once.
C4_IdempotentTeardown ==
  lastOp = "destroyAgain"
    => /\ ~raised
       /\ isDestroy
       /\ \A k \in Instances : ReleasedAtMostOnce(k)
       /\ heldAtDestroy # 0 => ReleasedOnce(heldAtDestroy)

\* C6: after an init that failed, and until an init succeeds, the adapter is
\* uninitialized and a render callback makes no engine call.
C6_FailedInitUninitialized ==
  lastInit = "failed" => (NotInitialized /\ engineCalls = 0)

\* Every destination channel holds exactly the samples of source, all written.
Broadcast(outs, source) ==
  \A o \in 1..Len(outs) : \A c \in 1..Len(outs[o]) :
    outs[o][c] = [i \in 1..Len(source) |-> Slot(source[i])]

NoInitSucceeded == \A k \in Instances : ~Created(k)

SingleChannel(inputs) == Len(inputs) >= 1 /\ Len(inputs[1]) = 1

QueuesAndVad == <<inputBuffer, outputBuffer, vadHistory, silenceCounter>>

\* C7: while no init has completed successfully and the processor is not
\* destroyed, a callback with a single input channel and destinations of that
\* channel's length writes the channel's samples into every destination channel,
\* makes no engine call, leaves the queues and the VAD state alone, returns true.
C7_PassthroughBeforeInit ==
  [][(/\ lastOp' = "process"
      /\ ~isDestroy
      /\ NoInitSucceeded
      /\ SingleChannel(lastIn')
      /\ ChannelLengths(outputs') \subseteq {Len(lastIn'[1][1])})
     => (/\ Broadcast(outputs', lastIn'[1][1])
         /\ engineCalls' = 0
         /\ ret' = "true"
         /\ UNCHANGED QueuesAndVad)]_vars

\* C7 witness: an init is in flight, none has succeeded, and the callback has
\* broadcast its single input channel to three destination channels.
C7_Witness ==
  /\ lastOp = "process" /\ ~isDestroy /\ NoInitSucceeded /\ inflight # <<>>
  /\ SingleChannel(lastIn) /\ Len(lastIn[1][1]) = 2
  /\ Len(outputs) = 2 /\ Len(outputs[1]) = 2
  /\ Broadcast(outputs, lastIn[1][1])
  /\ ret = "true"

\* A callback that wrote nothing leaves every slot Untouched.
NothingWritten(outs) == outs = Blank(ShapeOf(outs))

\* C8: process returns false exactly when a destroy has been handled, whatever
\* messages came after it (a successful init, a setParameter), and such a
\* callback writes no destination, touches no queue and calls no engine.
C8_DestroyedIsTerminal ==
  [][lastOp' = "process"
     => (/\ ret' = "false" <=> destroyMsgs > 0
         /\ destroyMsgs > 0
              => (/\ NothingWritten(outputs')
                  /\ engineCalls' = 0
                  /\ UNCHANGED QueuesAndVad))]_vars

\* C8 witness: destroyed, then an init succeeded and a parameter was set, and the
\* callback still returned false.
C8_Witness ==
  /\ destroyMsgs > 0 /\ lastInit = "ok" /\ ~NotInitialized
  /\ maxSilenceFrames # InitMaxSilenceFrames
  /\ lastOp = "process" /\ ret = "false"

\* The entries the callback that just ran added to the log.
NewEntries == {gateLog'[i] : i \in (Len(gateLog) + 1)..Len(gateLog')}

\* C9: when the engine's per-frame call throws in a Ready callback, processFrame
\* returns the frame it was given with vad 0, nothing is raised, the callback
\* returns true, and the lifecycle state, the handle and the regions are as before.
C9_EngineThrowRecovered ==
  [][(lastOp' = "process" /\ \E e \in NewEntries : e.threw)
     => (/\ \A e \in NewEntries : e.threw => (e.same /\ e.vad = Zero)
         /\ ret' = "true"
         /\ ~raised'
         /\ UNCHANGED <<isDestroy, rnnoiseModule, memory, state, pcmInputBuf,
                        pcmOutputBuf, frameSize, modules>>)]_vars

\* C9 witness: the engine was called with regions of its own memory, threw, and
\* the callback returned true with the frame it was given in the destinations.
C9_Witness ==
  /\ lastOp = "process" /\ ret = "true" /\ engineCalls > 0
  /\ pcmInputBuf = memory /\ pcmOutputBuf = memory
  /\ gateLog # <<>> /\ gateLog[Len(gateLog)].threw /\ ~gateLog[Len(gateLog)].skip
  /\ Broadcast(outputs, lastIn[1][1])

\* C2: with the engine ready at frame size F and N mono samples received since
\* the queues were last empty, however split over callbacks, floor(N / F) frames
\* have been handed to processFrame, each of F samples, and N mod F samples wait
\* in inputBuffer.
C2_FramesAreFloorOfSamples ==
  ~NotInitialized
    => /\ Len(gateLog) = rxCount \div frameSize
       /\ Len(inputBuffer) = rxCount % frameSize
       /\ Len(inputBuffer) < frameSize
       /\ \A i \in 1..Len(gateLog) : gateLog[i].len = frameSize

\* C2 witness: frames of two samples or more were completed from quanta that do
\* not line up with them, and part of a frame is waiting.
C2_Witness ==
  /\ ~NotInitialized /\ frameSize >= 2 /\ ret = "true"
  /\ Len(gateLog) >= 2 /\ Len(inputBuffer) > 0
  /\ Len(lastIn[1][1]) # frameSize

\* The first n frames since the VAD state was fresh all scored below one and the
\* same threshold, with maxSilenceFrames = 2.
LowRun(n) ==
  /\ Len(gateLog) >= n
  /\ \A i \in 1..n : /\ gateLog[i].msf = 2
                     /\ gateLog[i].thr = gateLog[1].thr
                     /\ BigLess(gateLog[i].vad, gateLog[i].thr)

Dropped(i) == gateLog[i].skip /\ gateLog[i].queued = 0
Kept(i) == ~gateLog[i].skip /\ gateLog[i].queued = gateLog[i].fs

\* C5 as stated: of five such frames, exactly frames 4 and 5 are dropped and
\* frames 1, 2 and 3 are appended to outputBuffer.
C5_DropsFrames4And5 ==
  LowRun(5) => (Kept(1) /\ Kept(2) /\ Kept(3) /\ Dropped(4) /\ Dropped(5))

\* C5 amended: of five such frames, frames 3, 4 and 5 are dropped (the counter
\* reads 3, 4 and 5 when the gate looks at it) and frames 1 and 2 are appended.
C5_DropsFrames3To5 ==
  LowRun(5) => (Kept(1) /\ Kept(2) /\ Dropped(3) /\ Dropped(4) /\ Dropped(5))

\* C5 witness: five such frames have been fed, in more than one callback.
C5_Witness ==
  LowRun(5) /\ Len(gateLog) = 5 /\ Len(lastIn[1][1]) = 1 /\ silenceCounter = 5

\* The first n frames since the VAD state was fresh all had the same score,
\* under one and the same threshold.
ConstantRun(n) ==
  \A i \in 1..n : gateLog[i].vad = gateLog[1].vad /\ gateLog[i].thr = gateLog[1].thr

\* C10: from a fresh VAD state and under a fixed threshold, a constant score at
\* or above the threshold leaves silenceCounter at 0 after every frame, and k
\* frames of a constant score below it leave silenceCounter at k.
C10_VadHysteresis ==
  \A n \in 1..Len(gateLog) :
    ConstantRun(n)
      => gateLog[n].counter =
           (IF BigLess(gateLog[1].vad, gateLog[1].thr) THEN n ELSE 0)

\* C10 witness: six frames of one score below the threshold, one more than the
\* window holds, and the counter reads 6.
C10_Witness ==
  /\ Len(gateLog) = 6 /\ ConstantRun(6)
  /\ BigLess(gateLog[1].vad, gateLog[1].thr)
  /\ Len(vadHistory) = VadWindow /\ silenceCounter = 6

\* Every destination channel of the last callback.
Channels ==
  UNION {{<<o, c>> : c \in 1..Len(outputs[o])} : o \in 1..Len(outputs)}

\* outputToChannels found fewer samples queued than any destination channel asks for.
Underrun ==
  /\ ret = "true" /\ delivering # <<>>
  /\ Channels # {}
  /\ \A oc \in Channels : Len(delivering) < Len(outputs[oc[1]][oc[2]])

\* C11: on an underrun of L queued samples, every destination channel holds
\* exactly those L samples in its first L slots, its slots from L on are as the
\* host left them, nothing was raised and outputBuffer is empty.
C11_OutputUnderrun ==
  Underrun
    => /\ \A oc \in Channels :
            \A i \in 1..Len(outputs[oc[1]][oc[2]]) :
               outputs[oc[1]][oc[2]][i] =
                  (IF i <= Len(delivering) THEN Slot(delivering[i]) ELSE Untouched)
       /\ outputBuffer = <<>>
       /\ ~raised

\* C11 witness: one sample, not a zero, was queued for three destination
\* channels of two and three slots.
C11_Witness ==
  Underrun /\ Cardinality(Channels) = 3 /\ Len(delivering) = 1 /\ delivering[1] # 0

\* The last callback merged the channels of its first input source, and index i
\* is one at which every channel holds a value that is not finite.
Merged == ret = "true" /\ ~NotInitialized /\ Len(lastIn) > 0 /\ Len(lastIn[1]) > 0
NaNColumns ==
  {i \in 1..Len(lastIn[1][1]) :
     \A ch \in 1..Len(lastIn[1]) :
        i <= Len(lastIn[1][ch]) /\ ~isFinite(lastIn[1][ch][i])}

\* C12 as stated: for one channel or more, mergeChannels yields 0 at every such
\* index.
C12_AllNaNColumnIsZero ==
  Merged => \A i \in NaNColumns : lastMono[i] = 0

\* C12 amended: for two channels or more, mergeChannels yields 0 at every such
\* index; a single channel is returned as a copy, its NaN samples included.
C12_AllNaNColumnIsZeroOfSeveral ==
  Merged => /\ Len(lastIn[1]) >= 2 => \A i \in NaNColumns : lastMono[i] = 0
            /\ Len(lastIn[1]) = 1 => lastMono = lastIn[1][1]

\* C12 witness: three channels were merged, each NaN at the first index.
C12_Witness ==
  Merged /\ Len(lastIn[1]) = 3 /\ 1 \in NaNColumns /\ lastMono = <<0>>

\* The last callback ran in passthrough mode on a source that holds samples.
PassedThrough ==
  ret = "true" /\ NotInitialized /\ Len(lastIn) > 0 /\ Len(lastIn[1]) > 0

\* Destination channel oc holds the leading samples of the source, as many as fit.
LeadingSamples(oc, source) ==
  \A i \in 1..Min2(Len(outputs[oc[1]][oc[2]]), Len(source)) :
     outputs[oc[1]][oc[2]][i] = Slot(source[i])

\* Every slot of destination channel oc beyond the source equals slot.
BeyondSource(oc, source, slot) ==
  \A i \in (Len(source) + 1)..Len(outputs[oc[1]][oc[2]]) : outputs[oc[1]][oc[2]][i] = slot

\* C13 as stated: in passthrough mode a destination channel longer than the
\* first input channel receives the source followed by zeros, whatever it held
\* before; a shorter one receives the leading samples of the source.
C13_PassthroughZeroExtends ==
  PassedThrough
    => \A oc \in Channels : /\ LeadingSamples(oc, lastIn[1][1])
                            /\ BeyondSource(oc, lastIn[1][1], Slot(0))

\* C13 amended: a longer destination channel receives the source in its leading
\* slots and keeps in the others what the host handed over; a shorter one
\* receives the leading samples of the source.
C13_PassthroughCopiesWhatFits ==
  PassedThrough
    => \A oc \in Channels : /\ LeadingSamples(oc, lastIn[1][1])
                            /\ BeyondSource(oc, lastIn[1][1], Untouched)

\* C13 witness: a source of two samples went to a channel of three slots and to
\* a channel of one.
C13_Witness ==
  /\ PassedThrough /\ Len(lastIn[1][1]) = 2
  /\ ShapeOf(outputs) = << <<3, 1>> >>
  /\ outputs[1][2][1] = Slot(lastIn[1][1][1])

\* The processed frames that the gate kept among the first n, in processing order.
RECURSIVE KeptUpTo(_)
KeptUpTo(n) ==
  IF n = 0 THEN <<>>
  ELSE KeptUpTo(n - 1) \o (IF gateLog[n].skip THEN <<>> ELSE gateLog[n].out)
KeptStream == KeptUpTo(Len(gateLog))

\* The slots of a destination channel that the last callback wrote.
WrittenSlots(oc) ==
  {i \in 1..Len(outputs[oc[1]][oc[2]]) : outputs[oc[1]][oc[2]][i].w}

\* The last callback ran in the Ready state; it was handed a source with a channel.
ReadyCallback == ret = "true" /\ ~NotInitialized
CarriedInput == Len(lastIn) > 0 /\ Len(lastIn[1]) > 0

\* Every destination channel was written the same samples in its leading slots
\* and in no other slot, and they are the samples that joined `sent` last.
SameSamplesDelivered ==
  /\ \A oc \in Channels :
        /\ WrittenPrefix(outputs[oc[1]][oc[2]], 1) = Written(outputs)
        /\ Cardinality(WrittenSlots(oc)) = Len(Written(outputs))
  /\ Len(Written(outputs)) <= Len(sent)
  /\ SubSeq(sent, Len(sent) - Len(Written(outputs)) + 1, Len(sent)) = Written(outputs)

\* C14 as stated: over any Ready-state callbacks, the samples written to the
\* destinations, callback after callback, are a prefix of the concatenation of
\* the processed frames the gate kept, the same for every channel, and
\* outputBuffer is the rest of that concatenation.
C14_WrittenIsPrefixOfKept ==
  /\ sent \o outputBuffer = KeptStream
  /\ ReadyCallback => SameSamplesDelivered

\* C14 amended: the same of the samples written by the callbacks that were
\* handed a source with a channel; a Ready-state callback without one writes
\* zeros to the destinations, which belong to no frame.
C14_DeliveredIsPrefixOfKept ==
  /\ sent \o outputBuffer = KeptStream
  /\ (ReadyCallback /\ CarriedInput) => SameSamplesDelivered

\* C14 witness: of three frames one was dropped, samples of differing values
\* have been delivered over more than one callback to three channels, and more
\* are waiting.
C14_Witness ==
  /\ ReadyCallback /\ CarriedInput /\ Cardinality(Channels) = 3
  /\ Len(gateLog) = 3 /\ \E i \in 1..3 : gateLog[i].skip
  /\ Len(sent) > Len(Written(outputs)) /\ Len(Written(outputs)) = 2
  /\ \E i \in 2..Len(sent) : sent[i] # sent[1]
  /\ outputBuffer # <<>>

\* C15: every frame processed in the Ready state joined outputBuffer if and only
\* if silenceCounter, as that frame's VAD score left it, was at most the
\* maxSilenceFrames of that moment; a kept frame made outputBuffer longer by
\* frameSize, a dropped one by nothing.
C15_KeptIffCounterWithinLimit ==
  \A i \in 1..Len(gateLog) :
     LET e == gateLog[i]
     IN /\ ~e.skip <=> e.counter <= e.msf
        /\ e.queued = (IF e.counter <= e.msf THEN e.fs ELSE 0)

\* C15 witness: frames of two samples or more; one was kept at a counter of 1
\* under the limit the processor starts with, and the next was dropped at a
\* counter of 2 under a limit of 0.
C15_Witness ==
  /\ Len(gateLog) >= 2 /\ gateLog[1].fs >= 2
  /\ gateLog[1].counter = 1 /\ gateLog[1].msf = InitMaxSilenceFrames
  /\ gateLog[1].queued = gateLog[1].fs
  /\ gateLog[2].counter = 2 /\ gateLog[2].msf = 0 /\ gateLog[2].queued = 0

\* C16: vadHistory never holds more than 5 scores, and it is the last min(5, n)
\* VAD scores in arrival order, n being the number of frames processed since
\* construction or the last destroy.
C16_VadWindowIsLastFive ==
  LET n == Len(gateLog)
      k == Min2(5, n)
  IN /\ Len(vadHistory) <= 5
     /\ vadHistory = [i \in 1..k |-> gateLog[n - k + i].vad]

\* C16 witness: six frames were processed, the first with another score than
\* the second, and the window starts at the second.
C16_Witness ==
  /\ Len(gateLog) = 6 /\ gateLog[1].vad # gateLog[2].vad
  /\ Len(vadHistory) = 5 /\ vadHistory[1] = gateLog[2].vad

\* The handle and the regions the processor holds have not been passed to
\* rnnoise_destroy or free.
HeldUnreleased ==
  /\ state \in Instances /\ modules[state].destroyed = 0
  /\ pcmInputBuf \in Instances /\ modules[pcmInputBuf].inFreed = 0
  /\ pcmOutputBuf \in Instances /\ modules[pcmOutputBuf].outFreed = 0

\* The step calls rnnoise_create and malloc inside some instance.
CreatesInEngine ==
  \E k \in 1..Len(modules') :
     modules'[k].created /\ (k \in Instances => ~modules[k].created)

\* C17: in every interleaving of init, destroy, setParameter and process,
\* rnnoise_process_frame is called only with a handle and regions that have not
\* been released, and once a destroy has been handled no step calls the engine:
\* neither rnnoise_process_frame nor rnnoise_create and malloc.
C17_NoEngineUseAfterRelease ==
  [][ /\ engineCalls' > 0 => (HeldUnreleased /\ ~isDestroy)
      /\ isDestroy => (engineCalls' = 0 /\ ~CreatesInEngine) ]_vars

\* C18: when every callback brings as many input samples as each destination
\* channel has slots, outputBuffer holds fewer than frameSize samples after
\* every callback, whatever the frame size and the gate's decisions.
C18_OutputQueueBelowFrameSize ==
  ~NotInitialized => Len(outputBuffer) < frameSize

\* C18 witness: with frames of three samples, after three frames and one of
\* them dropped, two samples are waiting.
C18_Witness ==
  /\ ReadyCallback /\ frameSize = 3 /\ Len(gateLog) >= 3
  /\ \E i \in 1..Len(gateLog) : gateLog[i].skip
  /\ Len(outputBuffer) = 2

\* Every slot of every destination channel was written a zero.
ZeroFilled(outs) ==
  \A o \in 1..Len(outs) : \A c \in 1..Len(outs[o]) : \A i \in 1..Len(outs[o][c]) :
     outs[o][c][i] = Slot(0)

\* C19: in the Ready state a callback whose first input source is absent or has
\* no channel zero-fills every destination channel, returns true, calls no
\* engine and leaves inputBuffer, outputBuffer, vadHistory and silenceCounter as
\* they were: what waits in outputBuffer is not delivered.
C19_ReadyNoInputIsSilence ==
  [][(/\ lastOp' = "process"
      /\ ~isDestroy /\ ~NotInitialized
      /\ (Len(lastIn') = 0 \/ Len(lastIn'[1]) = 0))
     => (/\ ZeroFilled(outputs')
         /\ ret' = "true"
         /\ engineCalls' = 0
         /\ UNCHANGED QueuesAndVad)]_vars

\* C19 witness: samples wait in both queues, the callback got a source without
\* a channel and zero-filled three destination channels.
C19_Witness ==
  /\ lastOp = "process" /\ ~isDestroy /\ ~NotInitialized
  /\ Len(lastIn) = 1 /\ Len(lastIn[1]) = 0
  /\ outputBuffer # <<>> /\ inputBuffer # <<>>
  /\ Cardinality(Channels) = 3 /\ ZeroFilled(outputs) /\ ret = "true"

\* C20: whatever the interleaving of createRnnoiseWorkletNode and destroy, every
\* AudioWorkletNode constructed so far is the node the wrapper holds or has
\* been sent 'destroy'; hence, once no call is in flight, a destroy leaves no
\* node that was never sent 'destroy'.
C20_EveryNodeHeldOrDestroyed ==
  \A n \in 1..Len(nodes) : n = rnnoiseWorkletNode \/ nodes[n].destroys > 0

====
